---- MODULE Spec2Model ----
(***************************************************************************)
(* View / animation lifecycle of the Three.js starter application.         *)
(*                                                                         *)
(* The model covers App (main.js, second definition in part_000),          *)
(* BasicScene (scenes/BasicScene.js) and EnhancedScene (part_002).         *)
(* The browser is modelled by its event sources: button clicks, animation  *)
(* frames, window resizes, slider input, mouse moves, canvas clicks, the   *)
(* 200 ms pulse timers and beforeunload.                                   *)
(*                                                                         *)
(* Representation:                                                         *)
(*   - a nullable object reference is a sequence of length 0 (null) or 1;  *)
(*   - requestAnimationFrame ids are positive integers, 0 stands for the   *)
(*     null animationId (both are falsy in `if (this.animationId)`);       *)
(*   - rotations are integers in units of 0.005 rad;                       *)
(*   - cube.scale is one integer (x, y and z are always set together) in   *)
(*     units of 1 / ScaleOne, so that the factor 1.2 = 6 / 5 is exact;     *)
(*   - a window size is the pair <<innerWidth, innerHeight>>.              *)
(* Light and particle animation and the cube's floating position.y only    *)
(* depend on Date.now() and feed nothing else; they are left out.          *)
(***************************************************************************)
EXTENDS Integers, Sequences, FiniteSets, TLC

VARIABLES env, window, dom, app, scenes, frames, nextId, hist, timers

vars == <<env, window, dom, app, scenes, frames, nextId, hist, timers>>

(***************************************************************************)
(* Bounds                                                                  *)
(***************************************************************************)
\* largest requestAnimationFrame id handed out
MaxFrameId == 6
\* largest number of scene objects ever constructed (1 basic + enhanced)
MaxScenes == 2
\* largest number of pulse timers pending at one time
MaxTimers == 2
\* largest number of factors 1.2 a cube's scale may carry
MaxPulseDepth == 2

(***************************************************************************)
(* Program constants                                                       *)
(***************************************************************************)
\* BasicScene.animate: rotation += 0.005 (one unit)
BasicRotationStep == 1
\* EnhancedScene constructor: rotationSpeed = 0.01 (two units)
DefaultRotationSpeed == 2
\* targetRotation = mouse * 0.5 rad = mouse * 100 units
TargetUnitsPerMouse == 100
\* smoothing factor 0.05 = 1 / 20
SmoothingDivisor == 20

\* cube.scale 1.0
ScaleOne == 5 ^ MaxPulseDepth

\* window sizes the browser may take
WindowSizes == {<<4, 3>>, <<16, 9>>}

\* values the rotation-speed slider can deliver (e.target.value strings)
SpeedInputs == {"0", "0.02"}

\* parseFloat on the slider strings, result in units of 0.005
parseFloat(str) ==
    CASE str = "0" -> 0
      [] str = "0.02" -> 4

\* values the scale slider can deliver (e.target.value strings)
ScaleInputs == {"1", "2"}

\* parseFloat on the scale slider strings, result in units of 1 / ScaleOne
parseFloatScale(str) ==
    CASE str = "1" -> ScaleOne
      [] str = "2" -> 2 * ScaleOne

(***************************************************************************)
(* Scene objects                                                           *)
(***************************************************************************)
\* BasicScene constructor / EnhancedScene constructor
NewScene(kind) ==
    [ kind            |-> kind,
      scene           |-> FALSE,
      camera          |-> <<>>,
      renderer        |-> <<>>,
      cube            |-> <<>>,
      controls        |-> <<>>,
      animationId     |-> 0,
      isAnimating     |-> FALSE,
      rotationSpeed   |-> IF kind = "enhanced" THEN DefaultRotationSpeed ELSE 0,
      mouseX          |-> 0,
      mouseY          |-> 0,
      targetRotationX |-> 0,
      targetRotationY |-> 0,
      mouseBound      |-> FALSE,
      disposed        |-> FALSE,
      renders         |-> 0,
      skipped         |-> 0,
      pulseBase       |-> ScaleOne,
      pulseTainted    |-> FALSE,
      scaleSet        |-> 0 ]

\* number of pending frame callbacks of scene s
Pending(fr, s) == Cardinality({i \in 1..Len(fr) : fr[i].scene = s})

\* the world a scene method acts on
World == [scenes |-> scenes, frames |-> frames, nextId |-> nextId,
          speedListeners |-> dom.speedListeners]

Ret(w, threw) == [w |-> w, threw |-> threw]

SetScene(w, s, rec) == [w EXCEPT !.scenes[s] = rec]

\* faulty variant: the id is stored but the callback is never queued
requestAnimationFrameLost(w, s) ==
    [w EXCEPT !.nextId = @ + 1,
              !.scenes[s].animationId = w.nextId]

\* requestAnimationFrame(() => this.animate())
requestAnimationFrame(w, s) ==
    [w EXCEPT !.frames = Append(@, [id |-> w.nextId, scene |-> s]),
              !.nextId = @ + 1,
              !.scenes[s].animationId = w.nextId]

\* cancelAnimationFrame(id)
cancelAnimationFrame(w, id) ==
    [w EXCEPT !.frames = SelectSeq(@, LAMBDA f : f.id # id)]

\* cube.rotation update of BasicScene.animate
BasicRotate(c) ==
    [c EXCEPT !.rx = @ + BasicRotationStep, !.ry = @ + BasicRotationStep]

\* cube.rotation update of EnhancedScene.animate
EnhancedRotate(sc) ==
    LET c  == sc.cube[1]
        x1 == c.rx + sc.rotationSpeed
        y1 == c.ry + sc.rotationSpeed
    IN  IF ~sc.controls[1].enabled
        THEN [c EXCEPT !.rx = x1 + ((sc.targetRotationX - x1) \div SmoothingDivisor),
                       !.ry = y1 + ((sc.targetRotationY - y1) \div SmoothingDivisor)]
        ELSE [c EXCEPT !.rx = x1, !.ry = y1]

\* renderer.render(scene, camera); a null renderer raises TypeError
Render(w, s) ==
    IF w.scenes[s].renderer = <<>>
    THEN Ret(w, TRUE)
    ELSE Ret([w EXCEPT !.scenes[s].renders = @ + 1], FALSE)

\* faulty variant: animate without the isAnimating guard
BasicAnimateUnguarded(w, s) ==
    LET w1 == requestAnimationFrame(w, s)
        w2 == IF w1.scenes[s].cube # <<>>
              THEN [w1 EXCEPT !.scenes[s].cube = <<BasicRotate(@[1])>>]
              ELSE w1
    IN  Render(w2, s)

\* BasicScene.animate
BasicAnimate(w, s) ==
    IF ~w.scenes[s].isAnimating
    THEN Ret([w EXCEPT !.scenes[s].skipped = @ + 1], FALSE)
    ELSE LET w1 == requestAnimationFrame(w, s)
             w2 == IF w1.scenes[s].cube # <<>>
                   THEN [w1 EXCEPT !.scenes[s].cube = <<BasicRotate(@[1])>>]
                   ELSE w1
         IN  Render(w2, s)

\* EnhancedScene.animate
EnhancedAnimate(w, s) ==
    IF ~w.scenes[s].isAnimating
    THEN Ret([w EXCEPT !.scenes[s].skipped = @ + 1], FALSE)
    ELSE LET w1 == requestAnimationFrame(w, s)
             sc == w1.scenes[s]
         IN  IF sc.cube # <<>>
             THEN IF sc.controls = <<>>
                  THEN Ret(w1, TRUE)
                  ELSE Render([w1 EXCEPT !.scenes[s].cube = <<EnhancedRotate(sc)>>], s)
             ELSE Render(w1, s)

animate(w, s) ==
    IF w.scenes[s].kind = "basic" THEN BasicAnimate(w, s) ELSE EnhancedAnimate(w, s)

\* BasicScene.pause / EnhancedScene.pause
pause(w, s) ==
    LET w1 == [w EXCEPT !.scenes[s].isAnimating = FALSE]
    IN  IF w1.scenes[s].animationId # 0
        THEN cancelAnimationFrame(w1, w1.scenes[s].animationId)
        ELSE w1

\* BasicScene.resume / EnhancedScene.resume
resume(w, s) == animate([w EXCEPT !.scenes[s].isAnimating = TRUE], s)

\* BasicScene.onWindowResize / EnhancedScene.onWindowResize
onWindowResize(w, s, win) ==
    IF w.scenes[s].camera = <<>> \/ w.scenes[s].renderer = <<>>
    THEN w
    ELSE [w EXCEPT !.scenes[s].camera = <<win>>,
                   !.scenes[s].renderer = <<[@[1] EXCEPT !.size = win]>>]

\* faulty variant: the resources are released but the loop is not stopped
SceneDisposeRunning(w, s) == [w EXCEPT !.scenes[s].disposed = TRUE]

\* BasicScene.dispose / EnhancedScene.dispose
SceneDispose(w, s) ==
    LET w1 == pause(w, s)
    IN  [w1 EXCEPT !.scenes[s].disposed = TRUE]

\* new THREE.Mesh(...) : rotation (0,0,0), scale (1,1,1)
NewCube == [rx |-> 0, ry |-> 0, scale |-> ScaleOne]

\* faulty variant: init without the container check; appendChild on the
\* missing container raises TypeError after the renderer was created
BasicInitUnchecked(w, s, win, e) ==
    LET w1 == [w EXCEPT !.scenes[s].scene = TRUE,
                        !.scenes[s].camera = <<win>>]
    IN  IF ~e.webgl
        THEN Ret(w1, TRUE)
        ELSE LET w2 == [w1 EXCEPT !.scenes[s].renderer = <<[size |-> win]>>]
             IN  IF ~e.basicContainer
                 THEN Ret(w2, TRUE)
                 ELSE animate([w2 EXCEPT
                          !.scenes[s].cube = <<NewCube>>,
                          !.scenes[s].isAnimating = TRUE], s)

\* BasicScene.init(containerId)
BasicInit(w, s, win, e) ==
    IF ~e.basicContainer
    THEN Ret(w, FALSE)
    ELSE LET w1 == [w EXCEPT !.scenes[s].scene = TRUE,
                             !.scenes[s].camera = <<win>>]
         IN  IF ~e.webgl
             THEN Ret(w1, TRUE)
             ELSE animate([w1 EXCEPT
                      !.scenes[s].renderer = <<[size |-> win]>>,
                      !.scenes[s].cube = <<NewCube>>,
                      !.scenes[s].isAnimating = TRUE], s)

\* EnhancedScene.init(containerId)
EnhancedInit(w, s, win, e) ==
    LET w1 == [w EXCEPT !.scenes[s].scene = TRUE,
                        !.scenes[s].camera = <<win>>]
    IN  IF ~e.webgl
        THEN Ret(w1, TRUE)
        ELSE LET w2 == [w1 EXCEPT !.scenes[s].renderer = <<[size |-> win]>>]
             IN  IF ~e.enhancedContainer
                 THEN Ret(w2, TRUE)
                 ELSE animate([w2 EXCEPT
                          !.scenes[s].cube = <<NewCube>>,
                          !.scenes[s].controls = <<[enabled |-> TRUE]>>,
                          !.speedListeners = Append(@, s),
                          !.scenes[s].mouseBound = TRUE,
                          !.scenes[s].isAnimating = TRUE], s)

(***************************************************************************)
(* App                                                                     *)
(***************************************************************************)
\* the object an App field refers to: 0 is null, otherwise an index of scenes
BasicRef == 1

\* App.initializeBasicScene (the catch swallows the exception)
initializeBasicScene(w, win, e) ==
    BasicInit([w EXCEPT !.scenes = Append(@, NewScene("basic"))], BasicRef, win, e).w

\* faulty variant: a new EnhancedScene on every call
initializeEnhancedSceneAlways(a, w, win, e) ==
    LET s  == Len(w.scenes) + 1
        w1 == [w EXCEPT !.scenes = Append(@, NewScene("enhanced"))]
    IN  [app |-> [a EXCEPT !.enhancedScene = s],
         w   |-> EnhancedInit(w1, s, win, e).w,
         inits |-> 1]

\* App.initializeEnhancedScene (the catch swallows the exception)
initializeEnhancedScene(a, w, win, e) ==
    IF a.enhancedScene = 0
    THEN LET s  == Len(w.scenes) + 1
             w1 == [w EXCEPT !.scenes = Append(@, NewScene("enhanced"))]
         IN  [app |-> [a EXCEPT !.enhancedScene = s],
              w   |-> EnhancedInit(w1, s, win, e).w,
              inits |-> 1]
    ELSE [app |-> a, w |-> w, inits |-> 0]

\* App.pauseBasicScene
pauseBasicScene(a, w) == IF a.basicScene # 0 THEN pause(w, a.basicScene) ELSE w

\* App.resumeBasicScene
resumeBasicScene(a, w) ==
    IF a.basicScene # 0 THEN resume(w, a.basicScene) ELSE Ret(w, FALSE)

\* faulty variant: the enhanced scene is left running
pauseEnhancedSceneSkipped(a, w) == w

\* App.pauseEnhancedScene
pauseEnhancedScene(a, w) ==
    IF a.enhancedScene # 0 THEN pause(w, a.enhancedScene) ELSE w

\* App.resumeEnhancedScene
resumeEnhancedScene(a, w) ==
    IF a.enhancedScene # 0 THEN resume(w, a.enhancedScene) ELSE Ret(w, FALSE)

\* App.handleWindowResize
handleWindowResize(a, w, win) ==
    IF a.currentView = "basic" /\ a.basicScene # 0
    THEN onWindowResize(w, a.basicScene, win)
    ELSE IF a.currentView = "enhanced" /\ a.enhancedScene # 0
         THEN onWindowResize(w, a.enhancedScene, win)
         ELSE w

\* a step that is not an animation frame
NoFrame == hist' = [hist EXCEPT !.frame = {}]

\* writes a world back into the variables
Commit(w) ==
    \E v \in {w} :
        /\ v.nextId <= MaxFrameId + 1
        /\ scenes' = v.scenes
        /\ frames' = v.frames
        /\ nextId' = v.nextId

(***************************************************************************)
(* Initial state: DOMContentLoaded has run `new App()`                     *)
(***************************************************************************)
Init ==
    /\ env \in [webgl : BOOLEAN, basicContainer : BOOLEAN, enhancedContainer : BOOLEAN]
    /\ window \in WindowSizes
    /\ \E b, e \in BOOLEAN :
          dom = [basicView |-> b, enhancedView |-> e,
                 resizeListeners |-> {"arrow"}, speedListeners |-> <<>>]
    /\ app = [basicScene |-> BasicRef, enhancedScene |-> 0, currentView |-> "basic"]
    /\ LET w == initializeBasicScene(
                   [scenes |-> <<>>, frames |-> <<>>, nextId |-> 1,
                    speedListeners |-> <<>>], window, env)
       IN  /\ scenes = w.scenes
           /\ frames = w.frames
           /\ nextId = w.nextId
    /\ hist = [lastCall |-> "constructor", threw |-> FALSE, inits |-> 0,
               enhancedShows |-> 0, appDisposed |-> FALSE, frame |-> {}]
    /\ timers = <<>>

(***************************************************************************)
(* Event handlers                                                          *)
(***************************************************************************)
\* click on #enhanced-btn: App.showEnhancedView
showEnhancedView ==
    /\ app.enhancedScene = 0 => Len(scenes) < MaxScenes
    /\ LET r1 == initializeEnhancedScene(app, World, window, env)
           w2 == pauseBasicScene(r1.app, r1.w)
           r3 == resumeEnhancedScene(r1.app, w2)
       IN  /\ Commit(r3.w)
           /\ dom' = [dom EXCEPT !.basicView = FALSE, !.enhancedView = TRUE,
                                 !.speedListeners = r3.w.speedListeners]
           /\ app' = IF r3.threw THEN r1.app
                     ELSE [r1.app EXCEPT !.currentView = "enhanced"]
           /\ hist' = [hist EXCEPT !.frame = {},
                                   !.lastCall = "showEnhancedView",
                                   !.threw = r3.threw,
                                   !.inits = @ + r1.inits,
                                   !.enhancedShows = IF @ < 2 THEN @ + 1 ELSE @]
    /\ UNCHANGED <<env, window, timers>>

\* click on #back-btn: App.showBasicView
showBasicView ==
    /\ LET w1 == pauseEnhancedScene(app, World)
           r2 == resumeBasicScene(app, w1)
       IN  /\ Commit(r2.w)
           /\ app' = IF r2.threw THEN app ELSE [app EXCEPT !.currentView = "basic"]
           /\ hist' = [hist EXCEPT !.frame = {}, !.lastCall = "showBasicView",
                                   !.threw = r2.threw]
    /\ dom' = [dom EXCEPT !.enhancedView = FALSE, !.basicView = TRUE]
    /\ UNCHANGED <<env, window, timers>>

\* the callbacks of one animation frame, run in the order they were requested;
\* an exception in one callback does not stop the others
\* (the world is bound to a value before each callback, which keeps the
\* evaluation linear in the number of callbacks)
RECURSIVE RunCallbacks(_, _)
RunCallbacks(w, cbs) ==
    IF cbs = <<>> THEN w
    ELSE RunCallbacks(CHOOSE r \in {animate(x, Head(cbs).scene).w : x \in {w}} : TRUE,
                      Tail(cbs))

\* one browser animation frame; hist.frame records the scenes it rendered
FrameTick ==
    /\ frames # <<>>
    /\ Commit(RunCallbacks([World EXCEPT !.frames = <<>>], frames))
    /\ hist' = [hist EXCEPT !.frame =
                    {s \in 1..Len(scenes) : scenes'[s].renders > scenes[s].renders}]
    /\ UNCHANGED <<env, window, dom, app, timers>>

\* window 'resize' event: the window takes a new size, the listeners run
WindowResize ==
    /\ \E win \in WindowSizes \ {window} :
          /\ window' = win
          /\ Commit(IF "arrow" \in dom.resizeListeners
                    THEN handleWindowResize(app, World, win)
                    ELSE World)
    /\ NoFrame
    /\ UNCHANGED <<env, dom, app, timers>>

\* 'input' event on #rotation-speed: every listener bound by bindControls runs
SpeedListeners(w, ls, v) ==
    LET run[i \in 0..Len(ls)] ==
            IF i = 0 THEN w
            ELSE [run[i - 1] EXCEPT !.scenes[ls[i]].rotationSpeed = parseFloat(v)]
    IN  run[Len(ls)]

RotationSpeedInput ==
    /\ dom.speedListeners # <<>>
    /\ \E v \in SpeedInputs : Commit(SpeedListeners(World, dom.speedListeners, v))
    /\ NoFrame
    /\ UNCHANGED <<env, window, dom, app, timers>>

\* 'mousemove' listener of addMouseInteraction; the mouse is at the top left
\* or the bottom right corner of the window
mousemove(sc, win, clientX, clientY) ==
    LET mx == ((clientX * 2) \div win[1]) - 1
        my == 1 - ((clientY * 2) \div win[2])
    IN  [sc EXCEPT !.mouseX = mx, !.mouseY = my,
                   !.targetRotationX = my * TargetUnitsPerMouse,
                   !.targetRotationY = mx * TargetUnitsPerMouse]

MouseMove ==
    /\ \E s \in 1..Len(scenes) :
          /\ scenes[s].mouseBound
          /\ \E c \in {<<0, 0>>, window} :
                Commit(SetScene(World, s, mousemove(scenes[s], window, c[1], c[2])))
    /\ NoFrame
    /\ UNCHANGED <<env, window, dom, app, timers>>

\* number of pending pulse timers of scene s
PendingTimers(ts, s) == Cardinality({i \in 1..Len(ts) : ts[i].scene = s})

\* 'input' listener of the scale control; pulseBase, pulseTainted and
\* scaleSet record the history of the cube's scale: the scale at the last
\* moment without a pending timer, whether the slider moved since while a
\* timer was pending, and the slider value set since the last click
scaleInput(sc, v, pending) ==
    [sc EXCEPT !.cube = <<[@[1] EXCEPT !.scale = parseFloatScale(v)]>>,
               !.scaleSet = parseFloatScale(v),
               !.pulseBase = IF pending THEN @ ELSE parseFloatScale(v),
               !.pulseTainted = IF pending THEN TRUE ELSE @]

\* 'input' event on #scale: every listener bound by bindControls runs
ScaleListeners(w, ls, v, ts) ==
    LET run[i \in 0..Len(ls)] ==
            IF i = 0 THEN w
            ELSE [run[i - 1] EXCEPT !.scenes[ls[i]] =
                      scaleInput(@, v, PendingTimers(ts, ls[i]) > 0)]
    IN  run[Len(ls)]

ScaleInput ==
    /\ dom.speedListeners # <<>>
    /\ \E v \in ScaleInputs :
          Commit(ScaleListeners(World, dom.speedListeners, v, timers))
    /\ NoFrame
    /\ UNCHANGED <<env, window, dom, app, timers>>

\* 'click' listener of addMouseInteraction: scale * 1.2 now
click(sc, pending) ==
    [sc EXCEPT !.cube = <<[@[1] EXCEPT !.scale = (@ * 6) \div 5]>>,
               !.scaleSet = 0,
               !.pulseBase = IF pending THEN @ ELSE sc.cube[1].scale,
               !.pulseTainted = IF pending THEN @ ELSE FALSE]

\* click on the canvas of scene s: the pulse and its setTimeout(..., 200)
CanvasClick ==
    /\ Len(timers) < MaxTimers
    /\ \E s \in 1..Len(scenes) :
          /\ scenes[s].mouseBound
          /\ (scenes[s].cube[1].scale * 6) % 5 = 0
          /\ Commit(SetScene(World, s, click(scenes[s], PendingTimers(timers, s) > 0)))
          /\ timers' = Append(timers, [scene |-> s,
                                       originalScale |-> scenes[s].cube[1].scale])
    /\ NoFrame
    /\ UNCHANGED <<env, window, dom, app>>

\* the timeout callback of the click listener: scale back to originalScale
timeout(sc, originalScale) ==
    [sc EXCEPT !.cube = <<[@[1] EXCEPT !.scale = originalScale]>>]

\* the oldest pulse timer expires (equal delays expire in the order set)
PulseTimer ==
    /\ timers # <<>>
    /\ Commit(SetScene(World, Head(timers).scene,
                       timeout(scenes[Head(timers).scene], Head(timers).originalScale)))
    /\ timers' = Tail(timers)
    /\ NoFrame
    /\ UNCHANGED <<env, window, dom, app>>

\* 'beforeunload': App.dispose
dispose ==
    /\ LET w1 == IF app.basicScene # 0 THEN SceneDispose(World, app.basicScene) ELSE World
           w2 == IF app.enhancedScene # 0 THEN SceneDispose(w1, app.enhancedScene) ELSE w1
       IN  Commit(w2)
    /\ app' = [app EXCEPT !.basicScene = 0, !.enhancedScene = 0]
    /\ dom' = [dom EXCEPT !.resizeListeners = @ \ {"handleWindowResize"}]
    /\ hist' = [hist EXCEPT !.frame = {}, !.lastCall = "dispose", !.threw = FALSE,
                            !.appDisposed = TRUE]
    /\ UNCHANGED <<env, window, timers>>

\* the application between construction and disposal
NextViews ==
    \/ showEnhancedView
    \/ showBasicView
    \/ FrameTick
    \/ WindowResize
    \/ RotationSpeedInput
    \/ MouseMove

SpecViews == Init /\ [][NextViews]_vars

Next ==
    \/ showEnhancedView
    \/ showBasicView
    \/ FrameTick
    \/ WindowResize
    \/ RotationSpeedInput
    \/ MouseMove
    \/ dispose

Spec == Init /\ [][Next]_vars

\* the scale of the enhanced cube: slider, clicks and their timers
NextPulse ==
    \/ showEnhancedView
    \/ ScaleInput
    \/ CanvasClick
    \/ PulseTimer

SpecPulse == Init /\ [][NextPulse]_vars

\* disposal among button clicks, frames, resizes, canvas clicks and timers
NextDisposal ==
    \/ showEnhancedView
    \/ showBasicView
    \/ FrameTick
    \/ WindowResize
    \/ CanvasClick
    \/ PulseTimer
    \/ dispose

SpecDisposal == Init /\ [][NextDisposal]_vars

(***************************************************************************)
(* Vocabulary of the properties                                            *)
(***************************************************************************)
SceneIds == 1..Len(scenes)

\* the browser creates WebGL contexts and the document has both containers
Nominal == env.webgl /\ env.basicContainer /\ env.enhancedContainer

\* the document has both containers (WebGL may still be unavailable)
DocumentComplete == env.basicContainer /\ env.enhancedContainer

\* init() ran to its end: the scene has a renderer and a cube
InitOk(s) == scenes[s].renderer # <<>> /\ scenes[s].cube # <<>>

\* the scene object of the current view, 0 if there is none
CurrentScene ==
    IF app.currentView = "basic" THEN app.basicScene ELSE app.enhancedScene

\* the last App method to run was a view switch
Switched == hist.lastCall \in {"showEnhancedView", "showBasicView"}

\* camera.aspect = innerWidth / innerHeight, compared without dividing
SameAspect(a, b) == a[1] * b[2] = b[1] * a[2]

(***************************************************************************)
(* C1: every scene has at most one frame callback that is scheduled and    *)
(* neither cancelled nor fired (already false when nothing fails to load). *)
(***************************************************************************)
NoDoubleSchedule == Nominal => \A s \in SceneIds : Pending(frames, s) <= 1

(***************************************************************************)
(* C2: after a view switch that completed without an exception the scene   *)
(* of the current view is animating and the other scene, if it exists, is  *)
(* not.                                                                    *)
(***************************************************************************)
ViewsOwnExclusiveLoops ==
    (Switched /\ ~hist.threw) =>
        /\ app.currentView = "enhanced" =>
              /\ app.enhancedScene # 0
              /\ scenes[app.enhancedScene].isAnimating
              /\ app.basicScene # 0 => ~scenes[app.basicScene].isAnimating
        /\ app.currentView = "basic" =>
              /\ app.basicScene # 0
              /\ scenes[app.basicScene].isAnimating
              /\ app.enhancedScene # 0 => ~scenes[app.enhancedScene].isAnimating

\* a completed switch back to the basic view with both scenes in existence
ViewsOwnExclusiveLoopsWitness ==
    /\ hist.lastCall = "showBasicView"
    /\ ~hist.threw
    /\ app.currentView = "basic"
    /\ app.enhancedScene # 0
    /\ scenes[app.basicScene].isAnimating
    /\ ~scenes[app.enhancedScene].isAnimating
    /\ scenes[app.enhancedScene].renders > 0

(***************************************************************************)
(* C3: after any view switch exactly one of the panels 'basic-view' and    *)
(* 'enhanced-view' is active, and it is the panel of currentView (stated   *)
(* for a document that has both scene containers).                         *)
(***************************************************************************)
PanelsAgreeWithView ==
    (DocumentComplete /\ Switched) =>
        /\ dom.basicView # dom.enhancedView
        /\ dom.basicView <=> app.currentView = "basic"
        /\ dom.enhancedView <=> app.currentView = "enhanced"

(***************************************************************************)
(* C4: while a scene is paused (isAnimating false from one state to the    *)
(* next) no step renders it or changes the rotation of its cube, whichever *)
(* frame callbacks were left pending.                                      *)
(***************************************************************************)
StillScene(s) ==
    /\ scenes'[s].renders = scenes[s].renders
    /\ scenes[s].cube # <<>> =>
          /\ scenes'[s].cube # <<>>
          /\ scenes'[s].cube[1].rx = scenes[s].cube[1].rx
          /\ scenes'[s].cube[1].ry = scenes[s].cube[1].ry

PausedSceneIsStill ==
    [][\A s \in SceneIds :
          (~scenes[s].isAnimating /\ ~scenes'[s].isAnimating) => StillScene(s)]_vars

\* a paused, initialised scene one of whose left-over callbacks has fired
PausedSceneIsStillWitness ==
    \E s \in SceneIds :
        /\ InitOk(s)
        /\ ~scenes[s].isAnimating
        /\ scenes[s].skipped > 0
        /\ Pending(frames, s) = 0

(***************************************************************************)
(* C5: an animating scene always has a frame callback pending, and under   *)
(* fair delivery of browser frames an initialised scene that is animating  *)
(* is rendered by a later frame unless it is paused first (or the frame    *)
(* ids of the model run out).                                              *)
(***************************************************************************)
FairViews == SpecViews /\ WF_vars(FrameTick)

\* s is an initialised scene whose loop is on
Alive(s) == s \in SceneIds /\ InitOk(s) /\ scenes[s].isAnimating

\* the step into the current state was a browser frame that rendered scene s
FrameRendered(s) == s \in hist.frame

\* the next frame cannot exceed the largest frame id of the model
Room == nextId + Len(frames) <= MaxFrameId + 1

LoopRecurs ==
    /\ [](\A s \in SceneIds : scenes[s].isAnimating => Pending(frames, s) >= 1)
    /\ \A s \in 1..MaxScenes : []<>(FrameRendered(s) \/ ~Alive(s) \/ ~Room)

\* after a switch back to the basic view a frame has rendered the basic scene
LoopRecursWitness ==
    /\ Nominal
    /\ hist.lastCall = "showBasicView"
    /\ Alive(app.basicScene)
    /\ FrameRendered(app.basicScene)
    /\ app.enhancedScene # 0
    /\ scenes[app.enhancedScene].skipped > 0

(***************************************************************************)
(* C6: the scene of the current view has its camera aspect and renderer    *)
(* size equal to the window's dimensions (already false when nothing fails *)
(* to load).                                                               *)
(***************************************************************************)
ShownSceneFitsWindow ==
    (Nominal /\ CurrentScene # 0 /\ InitOk(CurrentScene)) =>
        /\ SameAspect(scenes[CurrentScene].camera[1], window)
        /\ scenes[CurrentScene].renderer[1].size = window

(***************************************************************************)
(* C7: no EnhancedScene exists before the first showEnhancedView, and      *)
(* EnhancedScene.init() runs exactly once, on the first showEnhancedView:  *)
(* its control and mouse listeners are registered at most once, and        *)
(* exactly once when init() ran to its end.                                *)
(***************************************************************************)
EnhancedIds == {s \in SceneIds : scenes[s].kind = "enhanced"}

LazyInitOnce ==
    /\ hist.enhancedShows = 0 =>
          /\ EnhancedIds = {}
          /\ app.enhancedScene = 0
          /\ hist.inits = 0
    /\ hist.enhancedShows > 0 =>
          /\ app.enhancedScene # 0
          /\ EnhancedIds = {app.enhancedScene}
          /\ hist.inits = 1
          /\ Len(dom.speedListeners) <= 1
          /\ InitOk(app.enhancedScene) =>
                /\ dom.speedListeners = <<app.enhancedScene>>
                /\ scenes[app.enhancedScene].mouseBound

\* showEnhancedView has run again after the enhanced scene was set up
LazyInitOnceWitness ==
    /\ Nominal
    /\ hist.enhancedShows = 2
    /\ hist.inits = 1
    /\ InitOk(app.enhancedScene)

(***************************************************************************)
(* C8: while the enhanced view is shown, one browser frame advances the    *)
(* cube's rotation.x and rotation.y by exactly rotationSpeed.              *)
(***************************************************************************)
EnhancedShown ==
    /\ Nominal
    /\ app.currentView = "enhanced"
    /\ dom.enhancedView
    /\ app.enhancedScene # 0
    /\ InitOk(app.enhancedScene)

RotationStepIsSpeed ==
    [][(FrameTick /\ EnhancedShown) =>
          LET e == app.enhancedScene
          IN  /\ scenes'[e].cube[1].rx = scenes[e].cube[1].rx + scenes[e].rotationSpeed
              /\ scenes'[e].cube[1].ry = scenes[e].cube[1].ry + scenes[e].rotationSpeed]_vars

(***************************************************************************)
(* C9: in the enhanced view, once a mousemove has set the target rotation, *)
(* a frame brings the cube's rotation closer to the target (stated for     *)
(* rotation speed 0, where nothing else turns the cube).                   *)
(***************************************************************************)
Abs(x) == IF x < 0 THEN -x ELSE x

MouseAimed(e) ==
    /\ scenes[e].mouseX # 0
    /\ scenes[e].rotationSpeed = 0
    /\ scenes[e].isAnimating
    /\ Pending(frames, e) > 0
    /\ scenes[e].controls # <<>>

MouseRotatesCube ==
    [][(FrameTick /\ EnhancedShown /\ MouseAimed(app.enhancedScene)) =>
          LET e == app.enhancedScene
          IN  /\ Abs(scenes[e].targetRotationX - scenes'[e].cube[1].rx)
                    < Abs(scenes[e].targetRotationX - scenes[e].cube[1].rx)
              /\ Abs(scenes[e].targetRotationY - scenes'[e].cube[1].ry)
                    < Abs(scenes[e].targetRotationY - scenes[e].cube[1].ry)]_vars

(***************************************************************************)
(* C10: once App.dispose() has returned no 'resize' listener of the App is *)
(* registered on the window.                                               *)
(***************************************************************************)
DisposeRemovesResizeListener ==
    (Nominal /\ hist.appDisposed) => dom.resizeListeners = {}

(***************************************************************************)
(* C11: a scene disposed by App.dispose() never calls renderer.render      *)
(* again: no later step (frame, resize, button click, canvas click, pulse  *)
(* timer, another dispose) raises the render count of a disposed scene.    *)
(***************************************************************************)
DisposedSceneNeverRenders ==
    [][\A s \in SceneIds :
          scenes[s].disposed => scenes'[s].renders = scenes[s].renders]_vars

\* the basic scene was first paused by dispose(), and a callback that
\* dispose() did not cancel has fired since
DisposedSceneNeverRendersWitness ==
    /\ Nominal
    /\ hist.appDisposed
    /\ hist.enhancedShows = 0
    /\ scenes[BasicRef].disposed
    /\ scenes[BasicRef].renders > 0
    /\ scenes[BasicRef].skipped > 0

(***************************************************************************)
(* C12: a resume() on a scene that is animating with a frame callback      *)
(* pending (the resume() of a view switch) leaves the number of its        *)
(* pending callbacks unchanged, and in every state pause() followed at     *)
(* once by resume() leaves exactly one pending callback (nothing having    *)
(* failed to load).                                                        *)
(***************************************************************************)
\* this step calls resume() on scene s
Resumes(s) ==
    \/ showBasicView /\ s = app.basicScene
    \/ showEnhancedView /\ s = app.enhancedScene

ResumeAgainSchedulesNothing ==
    \A s \in SceneIds :
        (Nominal /\ Resumes(s) /\ scenes[s].isAnimating /\ Pending(frames, s) >= 1)
            => Pending(frames', s) = Pending(frames, s)

PauseResumeLeavesOne ==
    Nominal => \A s \in SceneIds :
        Pending(resume(pause(World, s), s).w.frames, s) = 1

ResumeIdempotent ==
    [][ResumeAgainSchedulesNothing]_vars /\ []PauseResumeLeavesOne

(***************************************************************************)
(* C13: once every pulse timer of a cube has fired, the cube's scale is    *)
(* the scale it had before the first click of the burst, provided the      *)
(* scale slider was not moved while a timer was pending (nothing having    *)
(* failed to load).                                                        *)
(***************************************************************************)
PulseIsTemporary ==
    Nominal => \A s \in SceneIds :
        (/\ scenes[s].cube # <<>>
         /\ PendingTimers(timers, s) = 0
         /\ ~scenes[s].pulseTainted)
            => scenes[s].cube[1].scale = scenes[s].pulseBase

(***************************************************************************)
(* C14: after a scale input with value v the cube's scale is v and stays v *)
(* until the next scale input or click, also when a pulse timer was        *)
(* pending at the input (nothing having failed to load).                   *)
(***************************************************************************)
ScaleControlHolds ==
    Nominal => \A s \in SceneIds :
        scenes[s].scaleSet # 0 => scenes[s].cube[1].scale = scenes[s].scaleSet

(***************************************************************************)
(* C15: BasicScene.init with a container id that matches no element        *)
(* returns without effect: until the first view switch or disposal the     *)
(* scene, camera, renderer and cube are null, isAnimating is false,        *)
(* animationId is null and no frame callback of the scene is scheduled.    *)
(***************************************************************************)
InitWithoutContainerHasNoEffect ==
    (~env.basicContainer /\ hist.lastCall = "constructor") =>
        /\ ~scenes[BasicRef].scene
        /\ scenes[BasicRef].camera = <<>>
        /\ scenes[BasicRef].renderer = <<>>
        /\ scenes[BasicRef].cube = <<>>
        /\ ~scenes[BasicRef].isAnimating
        /\ scenes[BasicRef].animationId = 0
        /\ Pending(frames, BasicRef) = 0
        /\ nextId = 1

\* init('basic-scene') has returned in a document without #basic-scene, in a
\* browser that would have created the renderer, and a resize has followed
InitWithoutContainerHasNoEffectWitness ==
    /\ ~env.basicContainer
    /\ env.webgl
    /\ hist.lastCall = "constructor"
    /\ scenes[BasicRef].renderer = <<>>
    /\ frames = <<>>
    /\ window = <<16, 9>>

====
